---------------------------- MODULE Spec2Model ----------------------------
(***************************************************************************)
(* Model of the session/cache core of trade-sdk:                           *)
(*   - SharedSessionManager (src/src/session.rs): a process-wide pooled    *)
(*     HTTP client behind an RwLock plus an independent atomic flag;       *)
(*   - the ClientsCache trait (src/src/caches/mod.rs): a TTL cache of      *)
(*     Arc-shared clients behind an RwLock;                                *)
(*   - the per-exchange wrappers (src/src/caches/bybit.rs, bingx.rs).      *)
(* Every call is run by a thread; a call is split into one step per access *)
(* to shared state (atomic load/store/swap, one critical section of a      *)
(* lock, one read of the clock).                                           *)
(***************************************************************************)
EXTENDS Integers, FiniteSets, Sequences, TLC

VARIABLES
    initialized,  \* SESSION_INITIALIZED: the atomic flag
    manager,      \* SHARED_SESSION_MANAGER: None or the stored manager
    mgrLock,      \* thread holding the manager's write lock, 0 when free
    mgrPoisoned,  \* the manager's RwLock is poisoned
    pools,        \* number of pooled clients built so far (Arc identities)
    teardowns,    \* history: number of close calls whose take() found a client
    th,           \* per thread: position, call, arguments, result
    now,          \* the monotonic clock read by Instant::now()
    lifetime,     \* per exchange: *_CACHE_LIFETIME, in seconds
    cache,        \* per exchange: *_CACHE, key -> None or (client, expiry)
    written,      \* history, per entry: clock and lifetime its add read
    nextId,       \* number of clients constructed so far (Arc identities)
    poisoned,     \* per exchange: which of its two RwLocks are poisoned
    last          \* history: the cache call that completed last

vars == <<initialized, manager, mgrLock, mgrPoisoned, pools, teardowns, th,
          now, lifetime, cache, written, nextId, poisoned, last>>

sessVars == <<initialized, manager, mgrLock, mgrPoisoned, pools, teardowns>>
cacheVars == <<now, lifetime, cache, written, nextId, poisoned, last>>

----------------------------------------------------------------------------
(* Bounds *)

NThreads == 2        \* threads calling the session manager
MaxConn == 2         \* setup arguments are 1..MaxConn
MaxPools == 2        \* pooled clients built in one run

MaxTime == 1         \* the clock runs from 0 to MaxTime
MaxLife == 1         \* configure arguments are 0..MaxLife
MaxClients == 2      \* clients constructed in one run
MaxInterval == 1     \* create_cleanup_task arguments are 0..MaxInterval

Threads == 1..NThreads
SessThreads == Threads
ConnArgs == 1..MaxConn
LifeArgs == 0..MaxLife
IntervalArgs == 0..MaxInterval

\* The thread (tokio task) that runs the loop of create_cleanup_task.
TaskThread == 2

\* The two racing callers of the cache.
CacheThreads == {1, 2}

\* Exchanges with a cache of their own.
Exchanges == {"bybit", "bingx"}

\* Duration::from_secs(600) of BYBIT_CACHE_LIFETIME and BINGX_CACHE_LIFETIME.
DefaultLifetime == 600

\* HashMap::new().
EmptyMap == [k \in {} |-> 0]

\* Keys of the trait-level calls: two tuples that differ in one flag.
CacheKeys == {<<"k1", "s1", FALSE, FALSE>>, <<"k1", "s1", FALSE, TRUE>>}

\* Arguments (api_key, api_secret, testnet, demo) of the wrapper calls: every
\* combination of the two flags, and a second api_key and api_secret.
WrapArgs ==
    {<<"k1", "s1", testnet, demo>> : testnet \in BOOLEAN, demo \in BOOLEAN}
      \cup {<<"k2", "s1", FALSE, FALSE>>, <<"k1", "s2", FALSE, FALSE>>}

\* The key two callers race on.
RaceKeys == {<<"k1", "s1", FALSE, FALSE>>}

Panic == "panic"

\* What reqwest's ClientBuilder::build() returns: Ok(client) or Err(error).
BuildResults == {"ok", "err"}

\* The variants of crate::error::Error a client constructor can return.
ConstructErrors == {"Http", "Config"}

\* Option::None of SHARED_SESSION_MANAGER: no pooled client has identity 0.
NoManager == [client |-> 0, max_connections |-> 0]

\* A cache key: (String, String, bool, bool).
NoKey == <<"", "", FALSE, FALSE>>

\* The configuration of a client nobody has described: one the caller of add
\* built, or one a trait-level create function returned.
NoConfig == [api_key |-> "", api_secret |-> "", base_url |-> ""]

\* A thread at rest after the call op(arg) returned ret (and the value val).
\* ex, key, client, at and life are the locals of a cache call: the cache it
\* works on, its key, the client it holds, the clock and lifetime it read;
\* args are the arguments (api_key, api_secret, testnet, demo) of a call made
\* through a per-exchange wrapper, and cfg the configuration of the client a
\* wrapper's constructor built.  rd and wr are the guards of the cache's map
\* lock the thread holds: the number of its read guards, and whether it
\* holds the write guard.
Idle(op, arg, ret, val) ==
    [pc |-> "idle", op |-> op, arg |-> arg, ret |-> ret, val |-> val,
     closeSince |-> FALSE, ex |-> "", key |-> NoKey, client |-> 0,
     at |-> 0, life |-> 0, args |-> NoKey, cfg |-> NoConfig,
     rd |-> 0, wr |-> FALSE]

\* A thread inside the call op(arg), at position pc.
Busy(pc, op, arg) ==
    [pc |-> pc, op |-> op, arg |-> arg, ret |-> "", val |-> 0,
     closeSince |-> FALSE, ex |-> "", key |-> NoKey, client |-> 0,
     at |-> 0, life |-> 0, args |-> NoKey, cfg |-> NoConfig,
     rd |-> 0, wr |-> FALSE]

\* A thread inside the cache call op on key k of cache e, holding client c.
CacheBusy(pc, op, e, k, c) ==
    [Busy(pc, op, 0) EXCEPT !.ex = e, !.key = k, !.client = c]

\* A thread at rest that made no call yet or whose cache call has returned.
Blank == Idle("none", 0, "", 0)

\* The cache call that completed last: the call op on key k of cache e
\* returned ret and the value val (a client for get, add and get_or_create,
\* a count for cleanup_expired and size).  A tick of the clock is an event
\* too, so that an event always describes the current cache and clock.
\* For an insert, over is the client of the unexpired entry it displaced (0
\* when there was none) and overBy the call that had written that entry.
\* For a call that failed, cause is the error its client constructor returned
\* and err the error the call returned.
Event(op, e, k, ret, val) ==
    [op |-> op, ex |-> e, key |-> k, ret |-> ret, val |-> val,
     over |-> 0, overBy |-> "", args |-> NoKey, cause |-> "", err |-> ""]

\* The call of thread t ends with ret (and the value val).
Return(t, ret, val) ==
    [th EXCEPT ![t].pc = "idle", ![t].ret = ret, ![t].val = val]

----------------------------------------------------------------------------
(* SharedSessionManager *)

SetupsInFlight == {t \in Threads : th[t].pc \in {"setup_lock", "setup_flag"}}

\* A close call begins: every setup call in progress or returned, and every
\* client constructor in progress, has now seen a close start after its own
\* start.
NoteCloseStart(f) ==
    [u \in Threads |->
        IF f[u].op = "setup" \/ (f[u].op = "http_new" /\ f[u].pc # "idle")
          THEN [f[u] EXCEPT !.closeSince = TRUE] ELSE f[u]]

\* setup, line 29: the fast atomic check.
SetupCheck(t, m) ==
    /\ th[t].pc = "idle"
    /\ pools + Cardinality(SetupsInFlight) < MaxPools
    /\ IF initialized
         THEN th' = [th EXCEPT ![t] = Idle("setup", m, "skipped_fast", 0)]
         ELSE th' = [th EXCEPT ![t] = Busy("setup_lock", "setup", m)]
    /\ UNCHANGED <<sessVars, cacheVars>>

\* SetupLock without the re-check of manager.is_some() under the lock.
SetupLock_NoRecheck(t) ==
    /\ th[t].pc = "setup_lock"
    /\ mgrLock = 0
    /\ IF mgrPoisoned
         THEN /\ th' = Return(t, Panic, 0)
              /\ UNCHANGED <<manager, mgrLock, mgrPoisoned, pools>>
         ELSE \E b \in BuildResults :
                IF b = "ok"
                  THEN /\ manager' = [client |-> pools + 1,
                                      max_connections |-> th[t].arg]
                       /\ pools' = pools + 1
                       /\ mgrLock' = t
                       /\ th' = [th EXCEPT ![t].pc = "setup_flag"]
                       /\ UNCHANGED mgrPoisoned
                  ELSE /\ th' = Return(t, Panic, 0)
                       /\ mgrPoisoned' = TRUE
                       /\ UNCHANGED <<manager, mgrLock, pools>>
    /\ UNCHANGED <<initialized, teardowns, cacheVars>>

\* setup, lines 34-73: write().unwrap(), the re-check, build and store.
\* build().expect(..), lines 67-68, panics when the client cannot be built:
\* the write guard is alive, so the lock is poisoned, and nothing is stored.
SetupLock(t) ==
    /\ th[t].pc = "setup_lock"
    /\ mgrLock = 0
    /\ IF mgrPoisoned
         THEN /\ th' = Return(t, Panic, 0)
              /\ UNCHANGED <<manager, mgrLock, mgrPoisoned, pools>>
         ELSE IF manager # NoManager
           THEN /\ th' = Return(t, "skipped_locked", 0)
                /\ UNCHANGED <<manager, mgrLock, mgrPoisoned, pools>>
           ELSE \E b \in BuildResults :
                  IF b = "ok"
                    THEN /\ manager' = [client |-> pools + 1,
                                        max_connections |-> th[t].arg]
                         /\ pools' = pools + 1
                         /\ mgrLock' = t
                         /\ th' = [th EXCEPT ![t].pc = "setup_flag"]
                         /\ UNCHANGED mgrPoisoned
                    ELSE /\ th' = Return(t, Panic, 0)
                         /\ mgrPoisoned' = TRUE
                         /\ UNCHANGED <<manager, mgrLock, pools>>
    /\ UNCHANGED <<initialized, teardowns, cacheVars>>

\* setup, lines 76-79: the flag is stored, then the guard is dropped.
SetupFlag(t) ==
    /\ th[t].pc = "setup_flag"
    /\ mgrLock = t
    /\ initialized' = TRUE
    /\ mgrLock' = 0
    /\ th' = Return(t, "initialized", 0)
    /\ UNCHANGED <<manager, mgrPoisoned, pools, teardowns, cacheVars>>

\* CloseSwap with a plain load in place of swap(false): the flag is left set.
CloseSwap_LoadOnly(t) ==
    /\ th[t].pc = "idle"
    /\ IF initialized
         THEN th' = [NoteCloseStart(th) EXCEPT ![t] =
                        Busy("close_take", "close", 0)]
         ELSE th' = [NoteCloseStart(th) EXCEPT ![t] = Idle("close", 0, "noop", 0)]
    /\ UNCHANGED <<sessVars, cacheVars>>

\* close, line 116: swap(false).
CloseSwap(t) ==
    /\ th[t].pc = "idle"
    /\ IF initialized
         THEN /\ initialized' = FALSE
              /\ th' = [NoteCloseStart(th) EXCEPT ![t] =
                          Busy("close_take", "close", 0)]
         ELSE /\ UNCHANGED initialized
              /\ th' = [NoteCloseStart(th) EXCEPT ![t] = Idle("close", 0, "noop", 0)]
    /\ UNCHANGED <<manager, mgrLock, mgrPoisoned, pools, teardowns, cacheVars>>

\* CloseTake that also takes the pooled client away from every client that
\* holds it.
CloseTake_RevokeHandles(t) ==
    /\ th[t].pc = "close_take"
    /\ mgrLock = 0
    /\ IF mgrPoisoned
         THEN /\ th' = Return(t, Panic, 0)
              /\ UNCHANGED <<manager, teardowns>>
         ELSE /\ manager' = NoManager
              /\ IF manager # NoManager
                   THEN /\ teardowns' = teardowns + 1
                        /\ th' = [u \in Threads |->
                                   IF u = t
                                     THEN [th[t] EXCEPT !.pc = "close_sleep",
                                                        !.val = manager.client]
                                     ELSE IF th[u].ret \in {"shared", "client"}
                                       THEN [th[u] EXCEPT !.val = 0]
                                       ELSE th[u]]
                   ELSE /\ UNCHANGED teardowns
                        /\ th' = Return(t, "closed_empty", 0)
    /\ UNCHANGED <<initialized, mgrLock, mgrPoisoned, pools, cacheVars>>

\* close, lines 122-125: write().unwrap() and take().
CloseTake(t) ==
    /\ th[t].pc = "close_take"
    /\ mgrLock = 0
    /\ IF mgrPoisoned
         THEN /\ th' = Return(t, Panic, 0)
              /\ UNCHANGED <<manager, teardowns>>
         ELSE /\ manager' = NoManager
              /\ IF manager # NoManager
                   THEN /\ teardowns' = teardowns + 1
                        /\ th' = [th EXCEPT ![t].pc = "close_sleep",
                                            ![t].val = manager.client]
                   ELSE /\ UNCHANGED teardowns
                        /\ th' = Return(t, "closed_empty", 0)
    /\ UNCHANGED <<initialized, mgrLock, mgrPoisoned, pools, cacheVars>>

\* close, lines 126-131: the advisory 200 ms wait ends.
CloseWake(t) ==
    /\ th[t].pc = "close_sleep"
    /\ th' = Return(t, "closed", th[t].val)
    /\ UNCHANGED <<sessVars, cacheVars>>

\* is_initialized, line 84.
IsInitialized(t) ==
    /\ th[t].pc = "idle"
    /\ th' = [th EXCEPT ![t] = Idle("is_initialized", 0, IF initialized THEN "true" ELSE "false", 0)]
    /\ UNCHANGED <<sessVars, cacheVars>>

\* max_connections, lines 135-142: a poisoned read() is skipped.
MaxConnections(t) ==
    /\ th[t].pc = "idle"
    /\ mgrLock = 0
    /\ th' = [th EXCEPT ![t] =
                Idle("max_connections", 0, "value",
                     IF ~mgrPoisoned /\ manager # NoManager
                       THEN manager.max_connections ELSE 0)]
    /\ UNCHANGED <<sessVars, cacheVars>>

\* get_client, lines 91-93: the atomic check; panics when the flag is false.
GetClientFlag(t, f) ==
    IF initialized
      THEN th' = [f EXCEPT ![t].pc = "gc_read"]
      ELSE th' = [f EXCEPT ![t].pc = "idle", ![t].ret = Panic]

\* What get_client hands back: the Arc of the stored pooled client.
GetClientReturn(t) ==
    Return(t, IF th[t].op = "http_new" THEN "shared" ELSE "client",
           manager.client)

\* get_client called directly, without a check of is_initialized().
GetClient(t) ==
    /\ th[t].pc = "idle"
    /\ GetClientFlag(t, [th EXCEPT ![t] = Busy("gc_check", "get_client", 0)])
    /\ UNCHANGED <<sessVars, cacheVars>>

\* get_client, lines 96-100: the read lock; a poisoned read() falls through.
GetClientRead(t) ==
    /\ th[t].pc = "gc_read"
    /\ mgrLock = 0
    /\ IF ~mgrPoisoned /\ manager # NoManager
         THEN th' = GetClientReturn(t)
         ELSE th' = [th EXCEPT ![t].pc = "gc_write"]
    /\ UNCHANGED <<sessVars, cacheVars>>

\* get_client, lines 103-109: write().unwrap().as_ref().expect(..); the
\* expect panics while the write guard is alive, which poisons the lock.
GetClientWrite(t) ==
    /\ th[t].pc = "gc_write"
    /\ mgrLock = 0
    /\ IF mgrPoisoned
         THEN /\ th' = Return(t, Panic, 0)
              /\ UNCHANGED mgrPoisoned
         ELSE IF manager # NoManager
           THEN /\ th' = GetClientReturn(t)
                /\ UNCHANGED mgrPoisoned
           ELSE /\ th' = Return(t, Panic, 0)
                /\ mgrPoisoned' = TRUE
    /\ UNCHANGED <<initialized, manager, mgrLock, pools, teardowns, cacheVars>>

\* HttpNew without the branch: the constructor always calls get_client().
HttpNew_AlwaysShared(t) ==
    /\ th[t].pc = "idle"
    /\ th' = [th EXCEPT ![t] = Busy("gc_check", "http_new", 0)]
    /\ UNCHANGED <<sessVars, cacheVars>>

\* BybitHttpClient::new, src/src/http.rs line 92: branch on is_initialized();
\* when false the client builds its own private reqwest client, lines
\* 96-105, and build().unwrap() panics when that client cannot be built.
HttpNew(t) ==
    /\ th[t].pc = "idle"
    /\ IF initialized
         THEN th' = [th EXCEPT ![t] = Busy("gc_check", "http_new", 0)]
         ELSE \E b \in BuildResults :
                th' = [th EXCEPT ![t] =
                         Idle("http_new", 0,
                              IF b = "ok" THEN "private" ELSE Panic, 0)]
    /\ UNCHANGED <<sessVars, cacheVars>>

\* BybitHttpClient::new, line 93: get_client() starts with its own check.
HttpNewGetClient(t) ==
    /\ th[t].pc = "gc_check"
    /\ GetClientFlag(t, th)
    /\ UNCHANGED <<sessVars, cacheVars>>


----------------------------------------------------------------------------
(* ClientsCache, src/src/caches/mod.rs *)

\* Insert that keeps an existing entry (entry().or_insert()).
Insert_KeepFirst(m, k, v) ==
    [x \in DOMAIN m \cup {k} |-> IF x = k /\ k \notin DOMAIN m THEN v ELSE m[x]]

\* HashMap::insert.
Insert(m, k, v) == [x \in DOMAIN m \cup {k} |-> IF x = k THEN v ELSE m[x]]

\* Retain with exp >= at in place of exp > at.
Retain_NotStrict(m, at) == [x \in {y \in DOMAIN m : m[y].exp >= at} |-> m[x]]

\* HashMap::retain(|_, (_, exp)| *exp > at).
Retain(m, at) == [x \in {y \in DOMAIN m : m[y].exp > at} |-> m[x]]

\* Lookup with exp >= now in place of exp > now.
Lookup_NotStrict(e, k) ==
    IF ~poisoned[e].map /\ k \in DOMAIN cache[e] /\ cache[e][k].exp >= now
      THEN cache[e][k].client ELSE 0

\* What get finds, lines 39-43: the entry's client if its expiry is later
\* than the clock, 0 (None) otherwise; read().ok() turns a poisoned map lock
\* into None.
Lookup(e, k) ==
    IF ~poisoned[e].map /\ k \in DOMAIN cache[e] /\ cache[e][k].exp > now
      THEN cache[e][k].client ELSE 0

\* Calls that will still construct a client.
Creating == {t \in Threads : th[t].pc = "goc_create"}

CanCreate == nextId + Cardinality(Creating) < MaxClients

\* History of the entry an insert by the call op writes: the clock and the
\* lifetime the add read, the arguments of the wrapper call, and (cfg) the
\* configuration of the entry's client.
WrittenBy(op, at, life, args) ==
    [at |-> at, life |-> life, by |-> op, args |-> args, cfg |-> NoConfig]

\* Cleanup tasks inside tokio::time::sleep(interval) whose interval has not
\* elapsed yet: arg is the interval, val the seconds slept so far.
Sleepers == {u \in Threads : th[u].pc = "task_sleep" /\ th[u].val < th[u].arg}

\* One second passes: the clock advances, and so does the time every
\* sleeping task has slept.  The clock stops at MaxTime, which stands for
\* every later time.
Tick ==
    /\ now < MaxTime \/ Sleepers # {}
    /\ now' = IF now < MaxTime THEN now + 1 ELSE now
    /\ th' = [u \in Threads |->
                IF u \in Sleepers THEN [th[u] EXCEPT !.val = @ + 1]
                                  ELSE th[u]]
    /\ last' = Event("tick", "", NoKey, "", 0)
    /\ UNCHANGED <<sessVars, poisoned, lifetime, cache, written, nextId>>

\* Configure that also gives every cached entry a fresh expiry.
Configure_RefreshEntries(t, e, l) ==
    /\ th[t].pc = "idle"
    /\ lifetime' = [lifetime EXCEPT ![e] = l]
    /\ cache' = [cache EXCEPT ![e] =
                   [x \in DOMAIN @ |-> [@[x] EXCEPT !.exp = now + l]]]
    /\ last' = Event("configure", e, NoKey, "done", l)
    /\ UNCHANGED <<sessVars, poisoned, th, now, written, nextId>>

\* configure, line 35: lifetime().write().unwrap() panics when the lifetime
\* lock is poisoned.
Configure(t, e, l) ==
    /\ th[t].pc = "idle"
    /\ IF poisoned[e].lifetime
         THEN /\ last' = Event("configure", e, NoKey, Panic, l)
              /\ UNCHANGED lifetime
         ELSE /\ lifetime' = [lifetime EXCEPT ![e] = l]
              /\ last' = Event("configure", e, NoKey, "done", l)
    /\ UNCHANGED <<sessVars, poisoned, th, now, cache, written, nextId>>

\* Get that gives the entry it returns a fresh expiry (a sliding lifetime).
Get_TouchOnHit(t, e, k) ==
    /\ th[t].pc = "idle"
    /\ last' = Event("get", e, k,
                     IF Lookup(e, k) # 0 THEN "hit" ELSE "miss", Lookup(e, k))
    /\ cache' = [cache EXCEPT ![e] =
                   IF Lookup(e, k) # 0
                     THEN [@ EXCEPT ![k].exp = now + lifetime[e]]
                     ELSE @]
    /\ UNCHANGED <<sessVars, poisoned, th, now, lifetime, written, nextId>>

\* Get that removes the entry it finds expired.
Get_EvictExpired(t, e, k) ==
    /\ th[t].pc = "idle"
    /\ last' = Event("get", e, k,
                     IF Lookup(e, k) # 0 THEN "hit" ELSE "miss", Lookup(e, k))
    /\ cache' = [cache EXCEPT ![e] =
                   [x \in {y \in DOMAIN @ : y # k \/ @[y].exp > now} |-> @[x]]]
    /\ written' = [written EXCEPT ![e] =
                     [x \in DOMAIN cache'[e] |-> @[x]]]
    /\ UNCHANGED <<sessVars, poisoned, th, now, lifetime, nextId>>

\* get, lines 38-44, under the read lock.
Get(t, e, k) ==
    /\ th[t].pc = "idle"
    /\ last' = Event("get", e, k,
                     IF Lookup(e, k) # 0 THEN "hit" ELSE "miss", Lookup(e, k))
    /\ UNCHANGED <<sessVars, poisoned, th, now, lifetime, cache, written, nextId>>

\* add(key, client) with a client the caller has just built; line 50,
\* expires = Instant::now() + *lifetime().read().unwrap(), begins with the
\* read of the clock.
Add(t, e, k) ==
    /\ th[t].pc = "idle"
    /\ CanCreate
    /\ nextId' = nextId + 1
    /\ th' = [th EXCEPT ![t] =
                [CacheBusy("add_life", "add", e, k, nextId + 1)
                   EXCEPT !.at = now]]
    /\ UNCHANGED <<sessVars, poisoned, now, lifetime, cache, written, last>>

\* add, line 50, goes on: the lifetime is read under its lock, after the
\* clock; lifetime().read().unwrap() panics when the lock is poisoned.  The
\* same step belongs to the add at the end of get_or_create and to an add
\* called inside create.
AddLife(t) ==
    /\ th[t].pc \in {"add_life", "lk_life", "lk_nested_life"}
    /\ IF poisoned[th[t].ex].lifetime
         THEN /\ last' = [Event(th[t].op, th[t].ex, th[t].key, Panic, 0)
                            EXCEPT !.args = th[t].args]
              /\ th' = [th EXCEPT ![t] = Blank]
         ELSE /\ th' = [th EXCEPT
                          ![t].pc = IF @ = "add_life" THEN "add_insert"
                                    ELSE IF @ = "lk_life" THEN "lk_add"
                                    ELSE "lk_nested_add",
                          ![t].life = lifetime[th[t].ex]]
              /\ UNCHANGED last
    /\ UNCHANGED <<sessVars, poisoned, now, lifetime, cache, written, nextId>>

\* add, lines 51-53: insert under the write lock; the call returns (and
\* get_or_create with it, line 68, handing back the client it built).
\* When the map lock is poisoned the insert is skipped and the call returns
\* all the same.
AddInsert(t) ==
    /\ th[t].pc = "add_insert"
    /\ IF poisoned[th[t].ex].map
         THEN /\ last' = [Event(th[t].op, th[t].ex, th[t].key,
                                IF th[t].op = "add"
                                  THEN "skipped" ELSE "built",
                                th[t].client)
                            EXCEPT !.args = th[t].args]
              /\ UNCHANGED <<cache, written>>
         ELSE /\ cache' = [cache EXCEPT ![th[t].ex] =
                             Insert(@, th[t].key,
                                    [client |-> th[t].client,
                                     exp |-> th[t].at + th[t].life])]
              /\ written' = [written EXCEPT ![th[t].ex] =
                               Insert(@, th[t].key,
                                      [WrittenBy(th[t].op, th[t].at,
                                                 th[t].life, th[t].args)
                                         EXCEPT !.cfg = th[t].cfg])]
              /\ last' = [Event(th[t].op, th[t].ex, th[t].key,
                                IF th[t].op = "add"
                                  THEN "added" ELSE "created",
                                th[t].client)
                            EXCEPT !.args = th[t].args,
                                   !.over = Lookup(th[t].ex, th[t].key),
                                   !.overBy =
                                     IF Lookup(th[t].ex, th[t].key) # 0
                                       THEN written[th[t].ex][th[t].key].by
                                       ELSE ""]
    /\ th' = [th EXCEPT ![t] = Blank]
    /\ UNCHANGED <<sessVars, poisoned, now, lifetime, nextId>>

\* GetOrCreate that skips the get and always builds a new client.
GetOrCreate_NoGet(t, e, k) ==
    /\ th[t].pc = "idle"
    /\ last' = Event("get_or_create", e, k, "miss", 0)
    /\ CanCreate
    /\ th' = [th EXCEPT ![t] =
                CacheBusy("goc_create", "get_or_create", e, k, 0)]
    /\ UNCHANGED <<sessVars, poisoned, now, lifetime, cache, written, nextId>>

\* get_or_create, lines 63-65: get; a hit returns at once.
GetOrCreate(t, e, k) ==
    /\ th[t].pc = "idle"
    /\ last' = Event("get_or_create", e, k,
                     IF Lookup(e, k) # 0 THEN "hit" ELSE "miss", Lookup(e, k))
    /\ IF Lookup(e, k) # 0
         THEN UNCHANGED th
         ELSE /\ CanCreate
              /\ th' = [th EXCEPT ![t] =
                          CacheBusy("goc_create", "get_or_create", e, k, 0)]
    /\ UNCHANGED <<sessVars, poisoned, now, lifetime, cache, written, nextId>>

\* get_or_create, lines 66-67: create() builds a new client, and add reads
\* the clock (line 50).
Create(t) ==
    /\ th[t].pc = "goc_create"
    /\ nextId' = nextId + 1
    /\ th' = [th EXCEPT ![t].pc = "add_life",
                        ![t].client = nextId + 1,
                        ![t].at = now]
    /\ UNCHANGED <<sessVars, poisoned, now, lifetime, cache, written, last>>

\* CleanupNow that compares against a time one second ahead of the clock.
CleanupNow_Ahead(t, e) ==
    /\ th[t].pc = "idle"
    /\ th' = [th EXCEPT ![t] =
                [CacheBusy("cleanup_retain", "cleanup_expired", e, NoKey, 0)
                   EXCEPT !.at = now + 1]]
    /\ UNCHANGED <<sessVars, cacheVars>>

\* cleanup_expired, line 74: the clock is read before the lock is taken.
CleanupNow(t, e) ==
    /\ th[t].pc = "idle"
    /\ th' = [th EXCEPT ![t] =
                [CacheBusy("cleanup_retain", "cleanup_expired", e, NoKey, 0)
                   EXCEPT !.at = now]]
    /\ UNCHANGED <<sessVars, cacheVars>>

\* cleanup_expired, lines 76-81: retain under the write lock, count removed.
CleanupRetain(t) ==
    /\ th[t].pc = "cleanup_retain"
    /\ cache' = IF poisoned[th[t].ex].map
                  THEN cache
                  ELSE [cache EXCEPT ![th[t].ex] = Retain(@, th[t].at)]
    /\ written' = [written EXCEPT ![th[t].ex] =
                     [x \in DOMAIN cache'[th[t].ex] |-> @[x]]]
    /\ last' = Event("cleanup_expired", th[t].ex, NoKey, "cleaned",
                     Cardinality(DOMAIN cache[th[t].ex])
                       - Cardinality(DOMAIN cache'[th[t].ex]))
    /\ th' = [th EXCEPT ![t] = Blank]
    /\ UNCHANGED <<sessVars, poisoned, now, lifetime, nextId>>

\* create_cleanup_task(interval_seconds), lines 97-99: tokio::spawn; the
\* task enters its loop and its first sleep (line 101).
SpawnTask(t, e, i) ==
    /\ th[t].pc = "idle"
    /\ th' = [th EXCEPT ![t] =
                [CacheBusy("task_sleep", "cleanup_task", e, NoKey, 0)
                   EXCEPT !.arg = i]]
    /\ UNCHANGED <<sessVars, cacheVars>>

\* TaskCleanup of a loop that runs its pass without waiting for the sleep.
TaskCleanup_NoSleep(t) ==
    /\ th[t].pc = "task_sleep"
    /\ th' = [th EXCEPT ![t].pc = "task_retain", ![t].at = now]
    /\ UNCHANGED <<sessVars, cacheVars>>

\* Lines 101-102: the sleep completes once the interval has elapsed, and
\* cleanup_expired reads the clock (line 74).
TaskCleanup(t) ==
    /\ th[t].pc = "task_sleep"
    /\ th[t].val >= th[t].arg
    /\ th' = [th EXCEPT ![t].pc = "task_retain", ![t].at = now]
    /\ UNCHANGED <<sessVars, cacheVars>>

\* TaskRetain of a task that returns after its first pass.
TaskRetain_Once(t) ==
    /\ th[t].pc = "task_retain"
    /\ cache' = IF poisoned[th[t].ex].map
                  THEN cache
                  ELSE [cache EXCEPT ![th[t].ex] = Retain(@, th[t].at)]
    /\ written' = [written EXCEPT ![th[t].ex] =
                     [x \in DOMAIN cache'[th[t].ex] |-> @[x]]]
    /\ last' = Event("cleanup_expired", th[t].ex, NoKey, "cleaned",
                     Cardinality(DOMAIN cache[th[t].ex])
                       - Cardinality(DOMAIN cache'[th[t].ex]))
    /\ th' = [th EXCEPT ![t] = Idle("cleanup_task", th[t].arg, "done", 0)]
    /\ UNCHANGED <<sessVars, poisoned, now, lifetime, nextId>>

\* Lines 102-110 and 76-81: the retain of the pass under the write lock
\* (the log line changes nothing); then the loop sleeps again, line 101.
TaskRetain(t) ==
    /\ th[t].pc = "task_retain"
    /\ cache' = IF poisoned[th[t].ex].map
                  THEN cache
                  ELSE [cache EXCEPT ![th[t].ex] = Retain(@, th[t].at)]
    /\ written' = [written EXCEPT ![th[t].ex] =
                     [x \in DOMAIN cache'[th[t].ex] |-> @[x]]]
    /\ last' = Event("cleanup_expired", th[t].ex, NoKey, "cleaned",
                     Cardinality(DOMAIN cache[th[t].ex])
                       - Cardinality(DOMAIN cache'[th[t].ex]))
    /\ th' = [th EXCEPT ![t].pc = "task_sleep", ![t].val = 0]
    /\ UNCHANGED <<sessVars, poisoned, now, lifetime, nextId>>

\* size, line 86: unwrap_or(0) on a poisoned map lock.
Size(t, e) ==
    /\ th[t].pc = "idle"
    /\ last' = Event("size", e, NoKey, "value",
                     IF poisoned[e].map
                       THEN 0 ELSE Cardinality(DOMAIN cache[e]))
    /\ UNCHANGED <<sessVars, poisoned, th, now, lifetime, cache, written,
                   nextId>>

\* The event of a clear of cache e: clear returns nothing; the history
\* keeps the number of entries the map held (val) and how many of them were
\* not expired (over).
Cleared(e) ==
    [Event("clear", e, NoKey, "done", Cardinality(DOMAIN cache[e]))
       EXCEPT !.over = Cardinality({k \in DOMAIN cache[e] :
                                      cache[e][k].exp > now})]

\* Clear that drops the expired entries only.
Clear_ExpiredOnly(t, e) ==
    /\ th[t].pc = "idle"
    /\ cache' = [cache EXCEPT ![e] = Retain(@, now)]
    /\ written' = [written EXCEPT ![e] = [x \in DOMAIN cache'[e] |-> @[x]]]
    /\ last' = Cleared(e)
    /\ UNCHANGED <<sessVars, poisoned, th, now, lifetime, nextId>>

\* clear, lines 90-94; nothing happens when the map lock is poisoned.
Clear(t, e) ==
    /\ th[t].pc = "idle"
    /\ IF poisoned[e].map
         THEN /\ last' = Event("clear", e, NoKey, "skipped", 0)
              /\ UNCHANGED <<cache, written>>
         ELSE /\ cache' = [cache EXCEPT ![e] = EmptyMap]
              /\ written' = [written EXCEPT ![e] = EmptyMap]
              /\ last' = Cleared(e)
    /\ UNCHANGED <<sessVars, poisoned, th, now, lifetime, nextId>>

\* The map lock of cache e, one guard at a time: the threads that hold a read
\* guard and the threads that hold the write guard.
MapReaders(e) == {u \in Threads : th[u].ex = e /\ th[u].rd > 0}

MapWriters(e) == {u \in Threads : th[u].ex = e /\ th[u].wr}

\* RwLock::read returns once no thread holds the write guard.
CanRead(e) == MapWriters(e) = {}

\* RwLock::write returns once no thread holds any guard.
CanWrite(e) == MapWriters(e) = {} /\ MapReaders(e) = {}

\* Positions of a get_or_create followed guard by guard.
LkPcs == {"lk_goc_get", "lk_create", "lk_nested_get", "lk_nested_size",
          "lk_nested_life", "lk_nested_add", "lk_nested_add_locked",
          "lk_life", "lk_add"}

\* get_or_create calls in flight that have not built their client yet.
LkPending == {u \in Threads : th[u].pc \in LkPcs /\ th[u].client = 0}

\* get_or_create, line 63, and get, line 39: cache().read().  The call is
\* admitted while a client can still be built for it.
LkGocLock(t, e, k) ==
    /\ th[t].pc = "idle"
    /\ nextId + Cardinality(LkPending) < MaxClients \/ Lookup(e, k) # 0
    /\ CanRead(e)
    /\ th' = [th EXCEPT ![t] =
                [CacheBusy("lk_goc_get", "get_or_create", e, k, 0)
                   EXCEPT !.rd = 1]]
    /\ UNCHANGED <<sessVars, cacheVars>>

\* LkGocUnlock that keeps the read guard of its get alive on a miss, until
\* get_or_create returns.
LkGocUnlock_KeepGuard(t) ==
    /\ th[t].pc = "lk_goc_get"
    /\ last' = Event("get_or_create", th[t].ex, th[t].key,
                     IF Lookup(th[t].ex, th[t].key) # 0
                       THEN "hit" ELSE "miss",
                     Lookup(th[t].ex, th[t].key))
    /\ IF Lookup(th[t].ex, th[t].key) # 0
         THEN th' = [th EXCEPT ![t] = Blank]
         ELSE th' = [th EXCEPT ![t].pc = "lk_create"]
    /\ UNCHANGED <<sessVars, poisoned, now, lifetime, cache, written, nextId>>

\* get, lines 39-43, and get_or_create, lines 63-65: the lookup; the read
\* guard is a temporary of get and is dropped when get returns, before
\* create is called (line 66).
LkGocUnlock(t) ==
    /\ th[t].pc = "lk_goc_get"
    /\ last' = Event("get_or_create", th[t].ex, th[t].key,
                     IF Lookup(th[t].ex, th[t].key) # 0
                       THEN "hit" ELSE "miss",
                     Lookup(th[t].ex, th[t].key))
    /\ IF Lookup(th[t].ex, th[t].key) # 0
         THEN th' = [th EXCEPT ![t] = Blank]
         ELSE th' = [th EXCEPT ![t].pc = "lk_create", ![t].rd = 0]
    /\ UNCHANGED <<sessVars, poisoned, now, lifetime, cache, written, nextId>>

\* Inside create (line 66): the create function calls get (line 39) or size
\* (line 86) on the same cache: cache().read().
LkNestedReadLock(t, op) ==
    /\ th[t].pc = "lk_create"
    /\ CanRead(th[t].ex)
    /\ th' = [th EXCEPT ![t].pc = IF op = "get" THEN "lk_nested_get"
                                               ELSE "lk_nested_size",
                        ![t].rd = @ + 1]
    /\ UNCHANGED <<sessVars, cacheVars>>

\* The nested get or size returns and drops its read guard.
LkNestedReadUnlock(t) ==
    /\ th[t].pc \in {"lk_nested_get", "lk_nested_size"}
    /\ last' = IF th[t].pc = "lk_nested_get"
                 THEN Event("get", th[t].ex, th[t].key,
                            IF Lookup(th[t].ex, th[t].key) # 0
                              THEN "hit" ELSE "miss",
                            Lookup(th[t].ex, th[t].key))
                 ELSE Event("size", th[t].ex, NoKey, "value",
                            IF poisoned[th[t].ex].map
                              THEN 0
                              ELSE Cardinality(DOMAIN cache[th[t].ex]))
    /\ th' = [th EXCEPT ![t].pc = "lk_create", ![t].rd = @ - 1]
    /\ UNCHANGED <<sessVars, poisoned, now, lifetime, cache, written, nextId>>

\* Inside create: the create function adds the client it builds under the
\* key of the call, any number of times; the clock read of line 50 of add.
LkNestedAdd(t) ==
    /\ th[t].pc = "lk_create"
    /\ nextId' = IF th[t].client = 0 THEN nextId + 1 ELSE nextId
    /\ th' = [th EXCEPT ![t].pc = "lk_nested_life",
                        ![t].client = IF @ = 0 THEN nextId + 1 ELSE @,
                        ![t].at = now]
    /\ UNCHANGED <<sessVars, poisoned, now, lifetime, cache, written, last>>

\* The nested add, line 51: cache().write().
LkNestedAddLock(t) ==
    /\ th[t].pc = "lk_nested_add"
    /\ CanWrite(th[t].ex)
    /\ th' = [th EXCEPT ![t].pc = "lk_nested_add_locked", ![t].wr = TRUE]
    /\ UNCHANGED <<sessVars, cacheVars>>

\* The nested add, lines 52-53: the insert; the guard is dropped and the
\* create function goes on.
LkNestedAddUnlock(t) ==
    /\ th[t].pc = "lk_nested_add_locked"
    /\ IF poisoned[th[t].ex].map
         THEN /\ last' = Event("add", th[t].ex, th[t].key, "skipped",
                               th[t].client)
              /\ UNCHANGED <<cache, written>>
         ELSE /\ cache' = [cache EXCEPT ![th[t].ex] =
                             Insert(@, th[t].key,
                                    [client |-> th[t].client,
                                     exp |-> th[t].at + th[t].life])]
              /\ written' = [written EXCEPT ![th[t].ex] =
                               Insert(@, th[t].key,
                                      WrittenBy("add", th[t].at, th[t].life,
                                                th[t].args))]
              /\ last' = [Event("add", th[t].ex, th[t].key, "added",
                                th[t].client)
                            EXCEPT !.over = Lookup(th[t].ex, th[t].key),
                                   !.overBy =
                                     IF Lookup(th[t].ex, th[t].key) # 0
                                       THEN written[th[t].ex][th[t].key].by
                                       ELSE ""]
    /\ th' = [th EXCEPT ![t].pc = "lk_create", ![t].wr = FALSE]
    /\ UNCHANGED <<sessVars, poisoned, now, lifetime, nextId>>

\* create returns its client (line 66) and add reads the clock (line 50).
LkCreateDone(t) ==
    /\ th[t].pc = "lk_create"
    /\ nextId' = IF th[t].client = 0 THEN nextId + 1 ELSE nextId
    /\ th' = [th EXCEPT ![t].pc = "lk_life",
                        ![t].client = IF @ = 0 THEN nextId + 1 ELSE @,
                        ![t].at = now]
    /\ UNCHANGED <<sessVars, poisoned, now, lifetime, cache, written, last>>

\* add, line 51: cache().write(); AddInsert is its insert, and the guard is
\* dropped when add returns.
LkAddLock(t) ==
    /\ th[t].pc = "lk_add"
    /\ CanWrite(th[t].ex)
    /\ th' = [th EXCEPT ![t].pc = "add_insert", ![t].wr = TRUE]
    /\ UNCHANGED <<sessVars, cacheVars>>

\* A thread panics while it holds the write guard of one of the two locks of
\* cache e, which the trait hands out through cache() and lifetime(), lines
\* 28-32: the lock is poisoned from then on.  (A read guard never poisons.)
PoisonLock(e, lock) ==
    /\ ~poisoned[e][lock]
    /\ poisoned' = [poisoned EXCEPT ![e][lock] = TRUE]
    /\ last' = Event("poison", e, NoKey, lock, 0)
    /\ UNCHANGED <<sessVars, th, now, lifetime, cache, written, nextId>>

----------------------------------------------------------------------------
(* BybitClientsCache and BingxClientsCache, src/src/caches/bybit.rs, bingx.rs *)

\* make_key(api_key, api_secret, testnet, demo), line 54 of both files.
make_key(api_key, api_secret, testnet, demo) ==
    <<api_key, api_secret, demo, testnet>>

\* make_key that leaves the demo flag out of the key.
WrapperKey_NoDemo(k, s, testnet, demo) == make_key(k, s, FALSE, testnet)

\* WrapperKey that leaves the testnet flag out of the key.
WrapperKey_NoTestnet(k, s, testnet, demo) == make_key(k, s, demo, FALSE)

\* The key the three wrappers build, lines 75, 108 and 127 of bybit.rs (75,
\* 106 and 125 of bingx.rs): make_key(api_key, api_secret, demo, testnet).
WrapperKey(k, s, testnet, demo) == make_key(k, s, demo, testnet)

\* The key of a get that passes its flags to make_key in declaration order.
GetKey_DeclaredOrder(k, s, testnet, demo) == make_key(k, s, testnet, demo)

\* The key the get wrapper builds, line 108 of bybit.rs, 106 of bingx.rs.
GetKey(k, s, testnet, demo) == WrapperKey(k, s, testnet, demo)

\* The wrapper get, bybit.rs lines 102-110, bingx.rs lines 100-108.
WrapGet(t, e, k, s, testnet, demo) ==
    /\ th[t].pc = "idle"
    /\ last' = [Event("get", e, GetKey(k, s, testnet, demo),
                      IF Lookup(e, GetKey(k, s, testnet, demo)) # 0
                        THEN "hit" ELSE "miss",
                      Lookup(e, GetKey(k, s, testnet, demo)))
                  EXCEPT !.args = <<k, s, testnet, demo>>]
    /\ UNCHANGED <<sessVars, poisoned, th, now, lifetime, cache, written, nextId>>

\* The wrapper add, bybit.rs lines 120-129, bingx.rs lines 118-127, with a
\* client the caller has just built; then the clock read of line 50 of the
\* trait's add.
WrapAdd(t, e, k, s, testnet, demo) ==
    /\ th[t].pc = "idle"
    /\ CanCreate
    /\ nextId' = nextId + 1
    /\ th' = [th EXCEPT ![t] =
                [CacheBusy("add_life", "add", e,
                           WrapperKey(k, s, testnet, demo), nextId + 1)
                   EXCEPT !.at = now, !.args = <<k, s, testnet, demo>>]]
    /\ UNCHANGED <<sessVars, poisoned, now, lifetime, cache, written, last>>

\* The wrapper get_or_create, bybit.rs lines 75-79, bingx.rs lines 75-79:
\* the key, then get; a hit returns at once.
WrapGetOrCreate(t, e, k, s, testnet, demo) ==
    /\ th[t].pc = "idle"
    /\ last' = [Event("get_or_create", e, WrapperKey(k, s, testnet, demo),
                      IF Lookup(e, WrapperKey(k, s, testnet, demo)) # 0
                        THEN "hit" ELSE "miss",
                      Lookup(e, WrapperKey(k, s, testnet, demo)))
                  EXCEPT !.args = <<k, s, testnet, demo>>]
    /\ IF Lookup(e, WrapperKey(k, s, testnet, demo)) # 0
         THEN UNCHANGED th
         ELSE /\ CanCreate
              /\ th' = [th EXCEPT ![t] =
                          [CacheBusy("wrap_new", "get_or_create", e,
                                     WrapperKey(k, s, testnet, demo), 0)
                             EXCEPT !.args = <<k, s, testnet, demo>>]]
    /\ UNCHANGED <<sessVars, poisoned, now, lifetime, cache, written, nextId>>

\* BybitHttpClient::new, src/src/clients/bybit/http.rs lines 56-63: the
\* host of base_url, chosen by (demo, testnet).
BybitBaseUrl(testnet, demo) ==
    IF demo
      THEN IF testnet THEN "https://api-demo-testnet.bybit.com"
                      ELSE "https://api-demo.bybit.com"
      ELSE IF testnet THEN "https://api-testnet.bybit.com"
                      ELSE "https://api.bybit.com"

\* BingxHttpClient::new, src/src/clients/bingx/http.rs lines 68-72.
BingxBaseUrl(demo) ==
    IF demo THEN "https://open-api-vst.bingx.com"
            ELSE "https://open-api.bingx.com"

\* ClientNew that builds every client for the live endpoint.
ClientNew_LiveOnly(e, api_key, api_secret, testnet, demo) ==
    [api_key |-> api_key, api_secret |-> api_secret,
     base_url |-> IF e = "bybit" THEN BybitBaseUrl(FALSE, FALSE)
                                 ELSE BingxBaseUrl(FALSE)]

\* BybitClient::new(api_key, api_secret, testnet, demo, 5000, None) and
\* BingxClient::new(api_key, api_secret, demo, 5000): what the constructor
\* hands to BaseHttpClient::new (base_url, api_key, api_secret).
ClientNew(e, api_key, api_secret, testnet, demo) ==
    [api_key |-> api_key, api_secret |-> api_secret,
     base_url |-> IF e = "bybit" THEN BybitBaseUrl(testnet, demo)
                                 ELSE BingxBaseUrl(demo)]

\* WrapNew that reserves the key's slot before it builds the client, and
\* leaves the empty slot behind when the constructor fails.
WrapNew_ReserveFirst(t, r) ==
    /\ th[t].pc = "wrap_new"
    /\ IF r = "ok"
         THEN /\ nextId' = nextId + 1
              /\ th' = [th EXCEPT ![t].pc = "add_life",
                                  ![t].client = nextId + 1,
                                  ![t].cfg =
                                      ClientNew(th[t].ex, th[t].key[1],
                                                th[t].key[2], th[t].args[3],
                                                th[t].args[4]),
                                  ![t].at = now]
              /\ UNCHANGED <<cache, written, last>>
         ELSE /\ cache' = [cache EXCEPT ![th[t].ex] =
                             Insert(@, th[t].key,
                                    [client |-> 0,
                                     exp |-> now + lifetime[th[t].ex]])]
              /\ written' = [written EXCEPT ![th[t].ex] =
                               Insert(@, th[t].key,
                                      WrittenBy("reserve", now,
                                                lifetime[th[t].ex],
                                                th[t].args))]
              /\ last' = [Event("get_or_create", th[t].ex, th[t].key,
                                "error", 0)
                            EXCEPT !.args = th[t].args, !.cause = r, !.err = r]
              /\ th' = [th EXCEPT ![t] = Blank]
              /\ UNCHANGED nextId
    /\ UNCHANGED <<sessVars, poisoned, now, lifetime>>

\* The wrapper get_or_create, bybit.rs lines 81-90, bingx.rs lines 81-88:
\* the constructor receives key.0, key.1 and the call's own testnet and demo.
\* r is what the client constructor returns: "ok", and then add reads the
\* clock (line 50 of the trait), or an error, which the ? operator hands
\* to the caller (From<Error> for Error is the identity) before add is
\* reached.
WrapNew(t, r) ==
    /\ th[t].pc = "wrap_new"
    /\ IF r = "ok"
         THEN /\ nextId' = nextId + 1
              /\ th' = [th EXCEPT ![t].pc = "add_life",
                                  ![t].client = nextId + 1,
                                  ![t].cfg =
                                      ClientNew(th[t].ex, th[t].key[1],
                                                th[t].key[2], th[t].args[3],
                                                th[t].args[4]),
                                  ![t].at = now]
              /\ UNCHANGED last
         ELSE /\ last' = [Event("get_or_create", th[t].ex, th[t].key,
                                "error", 0)
                            EXCEPT !.args = th[t].args, !.cause = r, !.err = r]
              /\ th' = [th EXCEPT ![t] = Blank]
              /\ UNCHANGED nextId
    /\ UNCHANGED <<sessVars, poisoned, now, lifetime, cache, written>>

----------------------------------------------------------------------------
(* Specifications *)

Init ==
    /\ initialized = FALSE
    /\ manager = NoManager
    /\ mgrLock = 0
    /\ mgrPoisoned = FALSE
    /\ pools = 0
    /\ teardowns = 0
    /\ th = [t \in Threads |-> Blank]
    /\ now = 0
    /\ lifetime = [e \in Exchanges |-> DefaultLifetime]
    /\ cache = [e \in Exchanges |-> EmptyMap]
    /\ written = [e \in Exchanges |-> EmptyMap]
    /\ nextId = 0
    /\ poisoned = [e \in Exchanges |-> [map |-> FALSE, lifetime |-> FALSE]]
    /\ last = Event("init", "", NoKey, "", 0)

\* setup calls and the observers, no close.
SetupNext ==
    \E t \in SessThreads :
        \/ \E m \in ConnArgs : SetupCheck(t, m)
        \/ SetupLock(t)
        \/ SetupFlag(t)
        \/ IsInitialized(t)
        \/ MaxConnections(t)

SetupSpec == Init /\ [][SetupNext]_vars

\* Every call of the session manager, and the client constructor.
SessionNext ==
    \E t \in SessThreads :
        \/ \E m \in ConnArgs : SetupCheck(t, m)
        \/ SetupLock(t)
        \/ SetupFlag(t)
        \/ CloseSwap(t)
        \/ CloseTake(t)
        \/ CloseWake(t)
        \/ IsInitialized(t)
        \/ MaxConnections(t)
        \/ GetClient(t)
        \/ GetClientRead(t)
        \/ GetClientWrite(t)
        \/ HttpNew(t)
        \/ HttpNewGetClient(t)

SessionSpec == Init /\ [][SessionNext]_vars

\* The session's life cycle and the callers that take the pooled client:
\* setup, close, the client constructor and get_client.
ClientNext ==
    \E t \in SessThreads :
        \/ \E m \in ConnArgs : SetupCheck(t, m)
        \/ SetupLock(t)
        \/ SetupFlag(t)
        \/ CloseSwap(t)
        \/ CloseTake(t)
        \/ CloseWake(t)
        \/ GetClient(t)
        \/ GetClientRead(t)
        \/ GetClientWrite(t)
        \/ HttpNew(t)
        \/ HttpNewGetClient(t)

ClientSpec == Init /\ [][ClientNext]_vars

\* Every trait-level call of one cache, one call after the other; the clock
\* may advance between any two steps of a call.
CacheNext ==
    \/ Tick
    \/ \E t \in {1} :
        \/ \E l \in LifeArgs : Configure(t, "bybit", l)
        \/ \E k \in CacheKeys : Get(t, "bybit", k)
        \/ \E k \in CacheKeys : Add(t, "bybit", k)
        \/ \E k \in CacheKeys : GetOrCreate(t, "bybit", k)
        \/ Create(t)
        \/ AddInsert(t)
        \/ AddLife(t)
        \/ CleanupNow(t, "bybit")
        \/ CleanupRetain(t)
        \/ Size(t, "bybit")
        \/ Clear(t, "bybit")

CacheSpec == Init /\ [][CacheNext]_vars

\* The trait-level calls of one cache, one call after the other, while its
\* locks can become poisoned.
PoisonNext ==
    \/ Tick
    \/ \E lock \in {"map", "lifetime"} : PoisonLock("bybit", lock)
    \/ \E t \in {1} :
        \/ \E l \in LifeArgs : Configure(t, "bybit", l)
        \/ \E k \in RaceKeys : Get(t, "bybit", k)
        \/ \E k \in RaceKeys : Add(t, "bybit", k)
        \/ \E k \in RaceKeys : GetOrCreate(t, "bybit", k)
        \/ Create(t)
        \/ AddInsert(t)
        \/ AddLife(t)
        \/ CleanupNow(t, "bybit")
        \/ CleanupRetain(t)
        \/ Size(t, "bybit")
        \/ Clear(t, "bybit")

PoisonSpec == Init /\ [][PoisonNext]_vars

\* The steps of a session call in progress.
SessStep(t) ==
    \/ SetupLock(t)
    \/ SetupFlag(t)
    \/ CloseTake(t)
    \/ CloseWake(t)
    \/ GetClientRead(t)
    \/ GetClientWrite(t)

\* The steps of a get_or_create in progress, guard by guard; its create
\* function may call get, size and add on the same cache.
LkStep(t) ==
    \/ LkGocUnlock(t)
    \/ \E op \in {"get", "size"} : LkNestedReadLock(t, op)
    \/ LkNestedReadUnlock(t)
    \/ LkNestedAdd(t)
    \/ LkNestedAddLock(t)
    \/ LkNestedAddUnlock(t)
    \/ LkCreateDone(t)
    \/ LkAddLock(t)
    \/ AddInsert(t)
    \/ AddLife(t)

\* Two threads call the session manager and get_or_create of one cache; every
\* acquisition and release of a lock is a step.
LockNext ==
    \E t \in CacheThreads :
        \/ \E m \in ConnArgs : SetupCheck(t, m)
        \/ CloseSwap(t)
        \/ GetClient(t)
        \/ MaxConnections(t)
        \/ SessStep(t)
        \/ \E k \in RaceKeys : LkGocLock(t, "bybit", k)
        \/ LkStep(t)

LockSpec == Init /\ [][LockNext]_vars

\* A caller of one cache and the task of create_cleanup_task.
TaskNext ==
    \/ Tick
    \/ \E i \in IntervalArgs : SpawnTask(TaskThread, "bybit", i)
    \/ TaskCleanup(TaskThread)
    \/ TaskRetain(TaskThread)
    \/ \E t \in {1} :
        \/ \E l \in LifeArgs : Configure(t, "bybit", l)
        \/ \E k \in RaceKeys : Get(t, "bybit", k)
        \/ \E k \in RaceKeys : Add(t, "bybit", k)
        \/ \E k \in RaceKeys : GetOrCreate(t, "bybit", k)
        \/ Create(t)
        \/ AddInsert(t)
        \/ AddLife(t)

\* Fair scheduling: time passes while a task sleeps, and the runtime runs a
\* task that is ready.
TaskSpec ==
    /\ Init
    /\ [][TaskNext]_vars
    /\ WF_vars(Tick)
    /\ WF_vars(TaskCleanup(TaskThread))
    /\ WF_vars(TaskRetain(TaskThread))

\* The per-exchange wrappers of both caches, one call after the other, within
\* the default lifetime.
WrapperNext ==
    \E t \in {1} :
        \/ \E e \in Exchanges, a \in WrapArgs :
              \/ WrapGet(t, e, a[1], a[2], a[3], a[4])
              \/ WrapAdd(t, e, a[1], a[2], a[3], a[4])
              \/ WrapGetOrCreate(t, e, a[1], a[2], a[3], a[4])
        \/ \E r \in {"ok"} \cup ConstructErrors : WrapNew(t, r)
        \/ AddInsert(t)
        \/ AddLife(t)

WrapperSpec == Init /\ [][WrapperNext]_vars

\* Two callers race on one key of one cache.
RaceNext ==
    \/ Tick
    \/ \E t \in CacheThreads :
        \/ \E l \in LifeArgs : Configure(t, "bybit", l)
        \/ \E k \in RaceKeys : Get(t, "bybit", k)
        \/ \E k \in RaceKeys : Add(t, "bybit", k)
        \/ \E k \in RaceKeys : GetOrCreate(t, "bybit", k)
        \/ Create(t)
        \/ AddInsert(t)
        \/ AddLife(t)
        \/ CleanupNow(t, "bybit")
        \/ CleanupRetain(t)

RaceSpec == Init /\ [][RaceNext]_vars

----------------------------------------------------------------------------
(* Claims about SharedSessionManager *)

SetupReturned(t) ==
    /\ th[t].pc = "idle"
    /\ th[t].op = "setup"
    /\ th[t].ret # Panic

\* C3: with setup calls only, from the uninitialized state, exactly one call
\* builds and stores the pooled client and every other call is a no-op:
\* once any setup call has ended, it has either initialized or skipped, and
\* the session is initialized with that one client; max_connections is the
\* argument of the call that initialized, and no later setup changes the
\* stored manager.
C3_SetupInitializesOnce ==
    /\ [](/\ pools <= 1
          /\ \A t \in Threads :
               (th[t].pc = "idle" /\ th[t].op = "setup") =>
                 /\ th[t].ret \in {"initialized", "skipped_fast",
                                   "skipped_locked"}
                 /\ pools = 1
                 /\ initialized
                 /\ manager.client = 1
                 /\ th[t].ret = "initialized" =>
                      manager.max_connections = th[t].arg
          /\ \A t \in Threads :
               (th[t].op = "max_connections" /\ th[t].val # 0) =>
                 th[t].val = manager.max_connections)
    /\ [][manager # NoManager => manager' = manager]_vars

\* C3 witness: two setup calls with different arguments passed the fast
\* check together; one initialized, the other was stopped under the lock.
C3_Witness ==
    \E t, u \in Threads :
        /\ SetupReturned(t) /\ th[t].ret = "initialized"
        /\ SetupReturned(u) /\ th[u].ret = "skipped_locked"
        /\ th[t].arg # th[u].arg
        /\ manager.max_connections = th[t].arg

\* C5: a constructor that read is_initialized() = true and then called
\* get_client() never panics.  A constructor that read the flag false never
\* calls get_client() and returns in that same step, so a close can start
\* during a constructor (closeSince) only when it had read the flag true.
C5_CheckedGetClientNeverPanics ==
    \A t \in Threads :
        ~(th[t].op = "http_new" /\ th[t].closeSince /\ th[t].ret = Panic)

\* C9: whenever a setup call has returned and no close call started after
\* that setup call started, the session is initialized and max_connections
\* is nonzero.
C9_SetupReturnsInitialized ==
    \A t \in Threads :
        (SetupReturned(t) /\ ~th[t].closeSince) =>
            /\ initialized
            /\ manager.max_connections > 0

\* The close calls between their swap and their take.
Closing == {t \in Threads : th[t].pc = "close_take"}

\* C10: close is idempotent.  At most one close call at a time is past the
\* swap, the stored client is still there for it to take (no close call that
\* passed the swap finds the manager empty), and the flag stays false until
\* it has taken it; after a close call has torn a client down, and until a
\* setup builds the next one, the flag is false and no client is stored; a
\* close call that finds the flag false changes nothing.
C10_CloseIdempotent ==
    /\ [](/\ Cardinality(Closing) <= 1
          /\ Closing # {} => (manager # NoManager /\ ~initialized)
          /\ \A t \in Threads :
               /\ th[t].ret # "closed_empty"
               /\ (th[t].op = "close" /\ th[t].val # 0 /\ th[t].val = pools) =>
                    (manager = NoManager /\ ~initialized)
          /\ teardowns <= pools)
    /\ [][\A t \in Threads :
            (/\ th[t].pc = "idle" /\ th'[t] # th[t]
             /\ th'[t].op = "close" /\ th'[t].ret = "noop") =>
                UNCHANGED sessVars]_vars

\* C10 witness: one close call tore the session down and sleeps or has
\* returned, while another close call found the flag false and did nothing.
C10_Witness ==
    \E t, u \in Threads :
        /\ th[t].op = "close" /\ th[t].val = pools /\ th[t].ret = "closed"
        /\ th[u].op = "close" /\ th[u].ret = "noop"
        /\ teardowns = 1

\* The callers that hold a handle of a pooled client: a client that was
\* constructed on the shared session, or a caller of get_client.
Holders == {t \in Threads : th[t].pc = "idle" /\ th[t].ret \in {"shared", "client"}}

\* C16: close removes only the manager's own reference.  No step (a close
\* or a setup among them) changes the handle a client holds, for as long as
\* the client is held;
\* a held handle is one of the pooled clients that were built; what close
\* changes is the flag and the stored manager; and a setup that stores a
\* client stores a newly built one, distinct from every handle held.
C16_HandlesSurviveClose ==
    /\ [][\A t \in Holders :
            (th'[t].pc = "idle" /\ th'[t].ret \in {"shared", "client"}) =>
                th'[t] = th[t]]_vars
    /\ [](\A t \in Holders :
            /\ th[t].val \in 1..pools
            /\ manager # NoManager => th[t].val <= manager.client)
    /\ [][\A t \in Threads :
            (th[t].pc = "close_take" /\ th'[t] # th[t]) =>
                /\ manager' = NoManager \/ mgrPoisoned
                /\ pools' = pools
                /\ initialized' = initialized
                /\ \A u \in Threads \ {t} : th'[u] = th[u]]_vars
    /\ [][(manager' # manager /\ manager' # NoManager) =>
            /\ pools' = pools + 1
            /\ manager'.client = pools'
            /\ \A t \in Holders : th[t].val # manager'.client]_vars

\* C16 witness: a client still holds the first pooled client after a close
\* and a later setup, which stored a second pooled client.
C16_Witness ==
    \E t \in Holders :
        /\ th[t].op = "http_new"
        /\ th[t].val = 1
        /\ teardowns = 1
        /\ initialized
        /\ manager.client = 2

\* The clients constructed by BybitHttpClient::new that their callers hold.
Constructed == {t \in Threads : th[t].pc = "idle" /\ th[t].op = "http_new"}

\* C17: a constructor that finds is_initialized() false returns at once with
\* a private client and never fails; one that finds it true calls get_client(), and, when
\* the flag stays true while it runs (no close starts), it returns with the
\* pooled client that is stored, marked shared; the stored pooled client
\* changes only when a close takes it, so all clients constructed between a
\* setup and the next close hold the same one; no setup or close step
\* changes what a constructed client recorded.
C17_SharedWhenInitialized ==
    /\ [](\A t \in Constructed :
            /\ th[t].ret = "private" => (th[t].val = 0 /\ ~th[t].closeSince)
            /\ ~th[t].closeSince => th[t].ret \in {"shared", "private"}
            /\ th[t].ret = "shared" => th[t].val \in 1..pools)
    /\ [][\A t \in Threads :
            (th[t].pc = "idle" /\ th'[t] # th[t] /\ th'[t].op = "http_new") =>
                IF initialized
                  THEN th'[t].pc = "gc_check"
                  ELSE th'[t].pc = "idle" /\ th'[t].ret = "private"]_vars
    /\ [][\A t \in Threads :
            (/\ th[t].op = "http_new" /\ th[t].pc # "idle"
             /\ th'[t].pc = "idle" /\ ~th'[t].closeSince) =>
                /\ th'[t].ret = "shared"
                /\ th'[t].val = manager.client
                /\ initialized]_vars
    /\ [][(manager # NoManager /\ manager' # manager) =>
            manager' = NoManager]_vars
    /\ [][sessVars' # sessVars =>
            \A t \in Constructed : th'[t].pc = "idle" => th'[t] = th[t]]_vars

\* C17 witness: two clients constructed after one setup, with no close, hold
\* the pooled client that is stored.
C17_Witness ==
    /\ \A t \in Threads :
         /\ t \in Constructed
         /\ th[t].ret = "shared"
         /\ th[t].val = manager.client
         /\ ~th[t].closeSince
    /\ initialized
    /\ teardowns = 0

\* C25: the flag being true implies that a pooled client is stored.  The
\* flag is set only by the holder of the write lock, after the client has
\* been stored, and the client is taken only while the flag is false.
C25_FlagImpliesClient ==
    /\ [](initialized => manager # NoManager)
    /\ [][(~initialized /\ initialized') =>
            /\ manager # NoManager
            /\ manager' = manager
            /\ mgrLock # 0
            /\ th[mgrLock].pc = "setup_flag"]_vars
    /\ [][(manager # NoManager /\ manager' = NoManager) =>
            (~initialized /\ ~initialized')]_vars

\* C25 witness: after a close, a second setup has stored a second pooled
\* client and set the flag.
C25_Witness ==
    /\ initialized
    /\ manager.client = 2
    /\ teardowns = 1
    /\ mgrLock = 0

\* C26: the two observers agree: in every state where is_initialized()
\* returns false and max_connections() can take its read lock,
\* max_connections() returns 0 (no pooled client is stored).
C26_ObserversAgree ==
    (~initialized /\ mgrLock = 0 /\ ~mgrPoisoned) =>
        (manager = NoManager /\ manager.max_connections = 0)

----------------------------------------------------------------------------
(* Claims about ClientsCache *)

\* The call that completed last was a lookup (get, or the get of
\* get_or_create) of key last.key in cache last.ex.
LastLooked == last.ret \in {"hit", "miss"}

\* The call that completed last was an insert (add, or the add of
\* get_or_create).
LastInserted == last.ret \in {"added", "created"}

\* C1: get of a key that is absent returns nothing; a key whose entry was
\* written by get_or_create with a positive lifetime that has not elapsed is
\* looked up (by get and by the next get_or_create) with a hit that hands
\* back the stored client, which is the client that get_or_create built and
\* returned; a get_or_create that hits builds no client.
C1_HitAfterCreate ==
    /\ LastLooked =>
         /\ last.key \notin DOMAIN cache[last.ex] =>
              (last.ret = "miss" /\ last.val = 0)
         /\ (/\ last.key \in DOMAIN written[last.ex]
             /\ written[last.ex][last.key].by = "get_or_create"
             /\ written[last.ex][last.key].life > 0
             /\ now < written[last.ex][last.key].at
                        + written[last.ex][last.key].life) =>
              /\ last.ret = "hit"
              /\ last.val = cache[last.ex][last.key].client
    /\ (last.op = "get_or_create" /\ last.ret = "created") =>
         /\ last.val \in 1..nextId
         /\ cache[last.ex][last.key].client = last.val

\* C1 witness: a second get_or_create of a key hit the entry the first
\* get_or_create had created, and only one client was ever built.
C1_Witness ==
    /\ last.op = "get_or_create"
    /\ last.ret = "hit"
    /\ last.val = 1
    /\ nextId = 1
    /\ written[last.ex][last.key].by = "get_or_create"

\* C2: get returns the stored client exactly when the key is present with an
\* expiry strictly later than the clock; an entry written by an add that
\* read the clock t and the lifetime L is returned at every time before
\* t + L and at no time from t + L on, whether or not it is still in the
\* map; the expiry an add stores is its clock plus the configured lifetime.
C2_GetUntilExpiry ==
    /\ last.op = "get" =>
         /\ (last.ret = "hit") <=>
              /\ last.key \in DOMAIN cache[last.ex]
              /\ cache[last.ex][last.key].exp > now
         /\ last.ret = "hit" => last.val = cache[last.ex][last.key].client
         /\ last.ret = "miss" => last.val = 0
         /\ last.key \in DOMAIN written[last.ex] =>
              ((last.ret = "hit") <=>
                 now < written[last.ex][last.key].at
                         + written[last.ex][last.key].life)
    /\ LastInserted =>
         /\ written[last.ex][last.key].life = lifetime[last.ex]
         /\ written[last.ex][last.key].at <= now
         /\ cache[last.ex][last.key].exp =
              written[last.ex][last.key].at + lifetime[last.ex]

\* C2 witness: a get at exactly t + L misses an entry that is still in the
\* map (no cleanup ran), for a configured lifetime L > 0.
C2_Witness ==
    /\ last.op = "get"
    /\ last.ret = "miss"
    /\ last.key \in DOMAIN cache[last.ex]
    /\ written[last.ex][last.key].life = MaxLife
    /\ MaxLife > 0
    /\ now = written[last.ex][last.key].at + written[last.ex][last.key].life

\* The entries of m that are expired at the clock value at.
ExpiredAt(m, at) == {k \in DOMAIN m : m[k].exp <= at}

\* C4: whenever the add of a call inserts (races included), the map holds
\* one entry for the key, with the client and expiry of that add, the other
\* entries are untouched and the call returns the client it built itself; a
\* get_or_create that hits returns the client cached when it looked.
C4_LastAddWins ==
    /\ [][\A t \in Threads :
            (th[t].pc = "add_insert" /\ th'[t].pc = "idle") =>
                /\ DOMAIN cache'[th[t].ex] =
                     DOMAIN cache[th[t].ex] \cup {th[t].key}
                /\ cache'[th[t].ex][th[t].key] =
                     [client |-> th[t].client, exp |-> th[t].at + th[t].life]
                /\ \A k \in DOMAIN cache[th[t].ex] \ {th[t].key} :
                     cache'[th[t].ex][k] = cache[th[t].ex][k]
                /\ last'.val = th[t].client]_vars
    /\ []((last.op = "get_or_create" /\ last.ret = "hit") =>
            /\ last.val = cache[last.ex][last.key].client
            /\ cache[last.ex][last.key].exp > now)
    /\ []((last.op = "get_or_create" /\ last.ret = "created") =>
            cache[last.ex][last.key].client = last.val)

\* C4 witness: a get_or_create that had seen a miss inserted its client over
\* the unexpired entry of another get_or_create on the same key: both saw
\* the miss, both built a client, the second add replaced the first's.
C4_Witness ==
    /\ last.op = "get_or_create"
    /\ last.ret = "created"
    /\ last.over # 0
    /\ last.over # last.val
    /\ last.overBy = "get_or_create"
    /\ Cardinality(DOMAIN cache[last.ex]) = 1

\* C6: cleanup_expired removes exactly the entries whose expiry is not
\* strictly greater than the clock it read, leaves the others as they were,
\* and returns the number removed: N entries, M expired, returns M and
\* leaves N - M.
C6_CleanupExact ==
    [][\A t \in Threads :
         (th[t].pc = "cleanup_retain" /\ th'[t].pc = "idle") =>
             /\ DOMAIN cache'[th[t].ex] =
                  DOMAIN cache[th[t].ex] \ ExpiredAt(cache[th[t].ex], th[t].at)
             /\ \A k \in DOMAIN cache'[th[t].ex] :
                  cache'[th[t].ex][k] = cache[th[t].ex][k]
             /\ last'.val = Cardinality(ExpiredAt(cache[th[t].ex], th[t].at))
             /\ Cardinality(DOMAIN cache'[th[t].ex]) =
                  Cardinality(DOMAIN cache[th[t].ex]) - last'.val]_vars

\* C6 witness: a cleanup of two entries removed the one that was expired
\* and kept the other.
C6_Witness ==
    /\ last.op = "cleanup_expired"
    /\ last.val = 1
    /\ Cardinality(DOMAIN cache[last.ex]) = 1

\* C12: get never modifies the cache: a get step leaves the map as it was
\* (an expired entry it missed included), so size is the same before and
\* after; size counts every entry of the map; an entry is removed or
\* replaced only by cleanup_expired, by clear, or by the insert of an add
\* for its key.
C12_GetLeavesCache ==
    /\ [][(last'.op = "get" /\ last' # last) =>
            /\ cache' = cache
            /\ Cardinality(DOMAIN cache'[last'.ex]) =
                 Cardinality(DOMAIN cache[last'.ex])]_vars
    /\ [](last.op = "size" =>
            last.val = Cardinality(DOMAIN cache[last.ex]))
    /\ [][\A e \in Exchanges : \A k \in DOMAIN cache[e] :
            (k \notin DOMAIN cache'[e] \/ cache'[e][k] # cache[e][k]) =>
                /\ last'.ex = e
                /\ \/ last'.op \in {"cleanup_expired", "clear"}
                   \/ last'.ret \in {"added", "created"} /\ last'.key = k]_vars

\* C12 witness: a get missed an expired entry that is still in the map, next
\* to a second entry.
C12_Witness ==
    /\ last.op = "get"
    /\ last.ret = "miss"
    /\ last.key \in DOMAIN cache[last.ex]
    /\ cache[last.ex][last.key].exp <= now
    /\ Cardinality(DOMAIN cache[last.ex]) = 2

\* C13: cleanup is lazy on access: once a get, or the get of get_or_create,
\* has missed a key, the cache holds no entry for that key (an expired entry
\* is removed by the access that finds it).
C13_ExpiredRemovedOnAccess ==
    (LastLooked /\ last.ret = "miss") => last.key \notin DOMAIN cache[last.ex]

\* C14: the map holds one entry per key; the insert of an add replaces
\* whatever entry the key had, expired or not, by the add's client with the
\* expiry clock + lifetime that the add computed, and the map grows by one
\* exactly when the key was absent; of two concurrent adds for one key, the
\* entry visible afterwards is that of the add that took the write lock
\* last.
C14_AddReplaces ==
    /\ [][\A t \in Threads :
            (th[t].pc = "add_insert" /\ th[t].op = "add"
               /\ th'[t].pc = "idle") =>
                /\ cache'[th[t].ex][th[t].key] =
                     [client |-> th[t].client, exp |-> th[t].at + th[t].life]
                /\ Cardinality(DOMAIN cache'[th[t].ex]) =
                     Cardinality(DOMAIN cache[th[t].ex])
                       + (IF th[t].key \in DOMAIN cache[th[t].ex] THEN 0 ELSE 1)
                /\ last'.ret = "added"
                /\ last'.val = th[t].client]_vars
    /\ [](last.ret = "added" =>
            /\ cache[last.ex][last.key].client = last.val
            /\ \A k \in DOMAIN cache[last.ex] :
                 (cache[last.ex][k].client = last.val) => k = last.key)
    /\ [](\A t \in Threads :
            (th[t].pc = "add_insert") =>
                /\ th[t].at <= now
                /\ th[t].life \in LifeArgs \cup {DefaultLifetime})

\* C14 witness: of two concurrent adds for one key, the one that had started
\* first took the write lock last and replaced the other's unexpired entry.
C14_Witness ==
    /\ last.op = "add"
    /\ last.ret = "added"
    /\ last.overBy = "add"
    /\ last.over > last.val
    /\ cache[last.ex][last.key].client = last.val

\* C15: configure(L) sets the lifetime of its cache to L and changes nothing
\* else: every entry keeps its client and its absolute expiry, and an add
\* in progress keeps the clock and the lifetime it has read; an add reads
\* the clock when it starts and then the lifetime configured last, and the
\* entry it inserts expires at the clock the add read plus that lifetime.
C15_ConfigureFrame ==
    /\ [][(last'.op = "configure" /\ last' # last) =>
            /\ cache' = cache
            /\ th' = th
            /\ lifetime'[last'.ex] = last'.val
            /\ \A e \in Exchanges \ {last'.ex} : lifetime'[e] = lifetime[e]]_vars
    /\ [](last.op = "configure" => lifetime[last.ex] = last.val)
    /\ [][\A t \in Threads :
            (th[t].pc # "add_life" /\ th'[t].pc = "add_life") =>
                th'[t].at = now]_vars
    /\ [][\A t \in Threads :
            (th[t].pc # "add_insert" /\ th'[t].pc = "add_insert") =>
                /\ th[t].pc = "add_life"
                /\ th'[t].life = lifetime[th[t].ex]
                /\ th'[t].at = th[t].at]_vars
    /\ [][\A t \in Threads :
            (th[t].pc = "add_insert" /\ th'[t].pc = "idle") =>
                cache'[th[t].ex][th[t].key].exp = th[t].at + th[t].life]_vars

\* C15 witness: configure(MaxLife) returned while the cache holds an entry
\* added under the default lifetime, with the expiry it was given then.
C15_Witness ==
    /\ last.op = "configure"
    /\ last.val = MaxLife
    /\ \E k \in DOMAIN cache[last.ex] :
         /\ written[last.ex][k].life = DefaultLifetime
         /\ cache[last.ex][k].exp = written[last.ex][k].at + DefaultLifetime

\* C20: clear is unconditional.  Whatever the map held, expired or not, it
\* is empty right after clear; on an empty map size returns 0 and get
\* returns nothing for every key; and the map gains an entry only by the
\* insert of an add, so this lasts until the next add.
C20_ClearEmpties ==
    /\ [][(last'.op = "clear" /\ last' # last) =>
            /\ cache'[last'.ex] = EmptyMap
            /\ \A e \in Exchanges \ {last'.ex} : cache'[e] = cache[e]]_vars
    /\ [](last.op = "clear" =>
            /\ Cardinality(DOMAIN cache[last.ex]) = 0
            /\ \A k \in CacheKeys : Lookup(last.ex, k) = 0)
    /\ []((last.op \in {"get", "size"} /\ cache[last.ex] = EmptyMap) =>
            last.val = 0)
    /\ [][\A e \in Exchanges : \A k \in DOMAIN cache'[e] :
            k \notin DOMAIN cache[e] =>
                /\ last'.ret \in {"added", "created"}
                /\ last'.ex = e
                /\ last'.key = k]_vars

\* C20 witness: clear emptied a map of two entries, one expired and one not.
C20_Witness ==
    /\ last.op = "clear"
    /\ last.val = 2
    /\ last.over = 1
    /\ cache[last.ex] = EmptyMap

\* The step inserts an entry for key k of cache e (the insert of an add or
\* of a get_or_create that missed).
InsertedNow(e, k) ==
    /\ last'.ret \in {"added", "created"}
    /\ last'.ex = e
    /\ last'.key = k

\* C23: the life of an entry is absent, present and unexpired, present and
\* expired, removed.  A key that get would not return becomes returnable
\* only by the insert of an add for it; a key enters the map, and an
\* expiry moves later, only by such an insert; and a key that get would
\* return stops being returnable only when the clock advances, by clear, or
\* by an insert for it.
C23_EntryLifecycle ==
    /\ [][\A e \in Exchanges : \A k \in CacheKeys :
            (Lookup(e, k) = 0 /\ Lookup(e, k)' # 0) => InsertedNow(e, k)]_vars
    /\ [][\A e \in Exchanges : \A k \in DOMAIN cache'[e] :
            (k \notin DOMAIN cache[e] \/ cache'[e][k].exp > cache[e][k].exp) =>
                InsertedNow(e, k)]_vars
    /\ [][\A e \in Exchanges : \A k \in CacheKeys :
            (Lookup(e, k) # 0 /\ Lookup(e, k)' = 0) =>
                \/ last'.op \in {"tick", "clear"}
                \/ InsertedNow(e, k)]_vars

\* C23 witness: the one entry ever added was absent, present, expired, and
\* has now been removed by cleanup_expired; no key is returnable.
C23_Witness ==
    /\ last.op = "cleanup_expired"
    /\ last.val = 1
    /\ nextId = 1
    /\ cache[last.ex] = EmptyMap
    /\ \A k \in CacheKeys : Lookup(last.ex, k) = 0

\* C28: a hit does not extend an entry's life.  The lookup of a get or of a
\* get_or_create leaves the map, expiries included, as it was; a lookup
\* hits an entry only before the clock its add read plus the lifetime its
\* add read; an expiry changes only by the insert of an add.
C28_HitKeepsExpiry ==
    /\ [][(last'.ret \in {"hit", "miss"} /\ last' # last) =>
            cache' = cache]_vars
    /\ []((LastLooked /\ last.ret = "hit") =>
            /\ now < written[last.ex][last.key].at
                       + written[last.ex][last.key].life
            /\ cache[last.ex][last.key].exp =
                 written[last.ex][last.key].at + written[last.ex][last.key].life)
    /\ [][\A e \in Exchanges : \A k \in DOMAIN cache[e] \cap DOMAIN cache'[e] :
            cache'[e][k].exp # cache[e][k].exp => InsertedNow(e, k)]_vars

\* C28 witness: a get_or_create hit an entry at a later clock than the one
\* its add read, and the entry still has the expiry that add gave it.
C28_Witness ==
    /\ last.op = "get_or_create"
    /\ last.ret = "hit"
    /\ written[last.ex][last.key].at < now
    /\ cache[last.ex][last.key].exp =
         written[last.ex][last.key].at + written[last.ex][last.key].life

\* C30 as stated: while the configured lifetime is 0, no lookup returns an
\* entry, and every get_or_create builds a client.
C30_ZeroLifetimeNeverHits ==
    (LastLooked /\ lifetime[last.ex] = 0) => last.ret = "miss"

\* C30 as amended: an entry whose add read the lifetime 0 is stored with the
\* clock of that add as its expiry and is returned by no lookup, while it
\* stays in the map as the one entry of its key; so a get_or_create of a key
\* whose entry was added under lifetime 0 misses and builds a new client.
C30_ZeroLifetimeEntriesNeverHit ==
    /\ \A e \in Exchanges : \A k \in DOMAIN cache[e] :
         written[e][k].life = 0 =>
             /\ cache[e][k].exp = written[e][k].at
             /\ Lookup(e, k) = 0
    /\ (LastLooked /\ last.key \in DOMAIN cache[last.ex]
           /\ written[last.ex][last.key].life = 0) => last.ret = "miss"

\* C30 witness: under lifetime 0 a second get_or_create of a key has built
\* a second client and replaced the first one's entry; the map holds one
\* entry, which no get returns.
C30_Witness ==
    /\ last.op = "get_or_create"
    /\ last.ret = "created"
    /\ last.val = 2
    /\ written[last.ex][last.key].life = 0
    /\ Cardinality(DOMAIN cache[last.ex]) = 1
    /\ Lookup(last.ex, last.key) = 0

\* C29: cleanup_expired compares against a clock it read before it took
\* the write lock, which is not later than the clock at the removal: every
\* entry it removes is expired at the moment of removal, so it removes no
\* entry that get would return; an entry that get would return leaves the
\* map, or changes, only by clear or by the insert of an add for its key.
C29_CleanupSparesUnexpired ==
    /\ [][\A t \in Threads :
            (th[t].pc = "cleanup_retain" /\ th'[t].pc = "idle") =>
                /\ th[t].at <= now
                /\ \A k \in DOMAIN cache[th[t].ex] \ DOMAIN cache'[th[t].ex] :
                     /\ cache[th[t].ex][k].exp <= now
                     /\ Lookup(th[t].ex, k) = 0]_vars
    /\ [][\A e \in Exchanges : \A k \in DOMAIN cache[e] :
            (/\ Lookup(e, k) # 0
             /\ k \notin DOMAIN cache'[e] \/ cache'[e][k] # cache[e][k]) =>
                \/ last'.op = "clear"
                \/ InsertedNow(e, k)]_vars

\* C29 witness: a cleanup pass has run after the clock advanced and kept an
\* entry that is unexpired, added at the current clock.
C29_Witness ==
    /\ last.op = "cleanup_expired"
    /\ last.val = 0
    /\ now > 0
    /\ \E k \in DOMAIN cache[last.ex] :
         /\ Lookup(last.ex, k) # 0
         /\ written[last.ex][k].at = now

----------------------------------------------------------------------------
(* Claims about the per-exchange wrappers *)

\* The entries of cache e written by a wrapper call with the arguments a.
WrittenWith(e, a) == {x \in DOMAIN cache[e] : written[e][x].args = a}

\* C7: the wrappers build their keys alike: a wrapper get with the arguments
\* (k, s, testnet, demo) hits exactly when the cache of that exchange holds
\* an unexpired entry that a wrapper add or get_or_create with the same
\* four arguments wrote, and it returns that entry's client.
C7_WrapperKeysAgree ==
    (last.op = "get" /\ last.args # NoKey) =>
        /\ (last.ret = "hit") <=>
             \E x \in WrittenWith(last.ex, last.args) :
                 cache[last.ex][x].exp > now
        /\ last.ret = "hit" =>
             \E x \in WrittenWith(last.ex, last.args) :
                 cache[last.ex][x].client = last.val

\* C7 witness: a get with testnet = TRUE and demo = FALSE hit the entry of
\* a call with these arguments, while a second entry is cached.
C7_Witness ==
    /\ last.op = "get"
    /\ last.ret = "hit"
    /\ last.args[3] = TRUE
    /\ last.args[4] = FALSE
    /\ written[last.ex][last.key].args = last.args
    /\ Cardinality(DOMAIN cache[last.ex]) = 2

\* C8: every field of the credential tuple discriminates: entries written
\* with different arguments are different entries, a wrapper insert leaves
\* the entries written with any other arguments (and the other exchange's
\* cache) as they were, and no lookup hits an entry written with other
\* arguments.
C8_KeyDiscriminates ==
    /\ [](\A e \in Exchanges : \A x, y \in DOMAIN cache[e] :
            (written[e][x].args = written[e][y].args) => x = y)
    /\ []((LastLooked /\ last.ret = "hit" /\ last.args # NoKey) =>
            written[last.ex][last.key].args = last.args)
    /\ [][\A t \in Threads :
            (th[t].pc = "add_insert" /\ th'[t].pc = "idle") =>
                /\ \A x \in DOMAIN cache[th[t].ex] :
                     written[th[t].ex][x].args # th[t].args =>
                        /\ x \in DOMAIN cache'[th[t].ex]
                        /\ cache'[th[t].ex][x] = cache[th[t].ex][x]
                /\ \A e \in Exchanges \ {th[t].ex} : cache'[e] = cache[e]]_vars

\* C8 witness: a get missed although the cache holds an unexpired entry for
\* arguments that differ from its own in the demo flag only.
C8_Witness ==
    /\ last.op = "get"
    /\ last.ret = "miss"
    /\ \E x \in DOMAIN cache[last.ex] :
         /\ cache[last.ex][x].exp > now
         /\ written[last.ex][x].args =
              <<last.args[1], last.args[2], last.args[3], ~last.args[4]>>

\* C11: when the client constructor fails inside a wrapper get_or_create,
\* the call returns the constructor's error as it is, builds no client, does
\* not try again, and leaves both caches exactly as they were: no entry for
\* the key appears and no entry changes.
C11_FailureLeavesCache ==
    /\ []((last.ret = "error") =>
            /\ last.err \in ConstructErrors
            /\ last.err = last.cause)
    /\ [][\A t \in Threads :
            (th[t].pc = "wrap_new" /\ th'[t].pc = "idle") =>
                /\ last'.ret = "error"
                /\ last'.key = th[t].key
                /\ cache' = cache
                /\ written' = written
                /\ nextId' = nextId
                /\ th'[t] = Blank]_vars

\* C11 witness: a get_or_create failed with a Config error while the cache
\* held an entry for other arguments; the key of the failed call is absent.
C11_Witness ==
    /\ last.op = "get_or_create"
    /\ last.ret = "error"
    /\ last.err = "Config"
    /\ last.key \notin DOMAIN cache[last.ex]
    /\ cache[last.ex] # EmptyMap

\* The arguments (api_key, api_secret, testnet, demo) of the wrapper call
\* that wrote the entry x of cache e.
ArgsOf(e, x) == written[e][x].args

\* C18: cache keys have the documented format (api_key, api_secret, demo,
\* testnet): the entry of a wrapper call with testnet = T and demo = D is
\* stored under (api_key, api_secret, D, T), and a trait-level get with that
\* tuple finds its client.
C18_DocumentedKeyFormat ==
    \A e \in Exchanges : \A x \in DOMAIN cache[e] :
        /\ x = <<ArgsOf(e, x)[1], ArgsOf(e, x)[2],
                 ArgsOf(e, x)[4], ArgsOf(e, x)[3]>>
        /\ Lookup(e, <<ArgsOf(e, x)[1], ArgsOf(e, x)[2],
                       ArgsOf(e, x)[4], ArgsOf(e, x)[3]>>) = cache[e][x].client

\* Two argument tuples that differ in the testnet flag only.
TestnetTwins(a, b) ==
    /\ a[1] = b[1] /\ a[2] = b[2] /\ a[4] = b[4]
    /\ a[3] # b[3]

\* C19 as stated: the BingX key has no testnet flag, so BingX calls that
\* differ in testnet only share one entry (and one client), while Bybit
\* calls that differ in testnet only have entries of their own.
C19_BingxKeyLacksTestnet ==
    /\ \A x, y \in DOMAIN cache["bingx"] :
         (/\ ArgsOf("bingx", x)[1] = ArgsOf("bingx", y)[1]
          /\ ArgsOf("bingx", x)[2] = ArgsOf("bingx", y)[2]
          /\ ArgsOf("bingx", x)[4] = ArgsOf("bingx", y)[4]) => x = y
    /\ (LastLooked /\ last.ret = "hit" /\ last.ex = "bybit") =>
         ArgsOf("bybit", last.key)[3] = last.args[3]

\* What the code does in place of C19: both keys carry the testnet flag.  In
\* the BingX cache as in the Bybit cache, a lookup hits only an entry written
\* with its own testnet argument, and entries cached for calls that differ
\* in testnet only are two entries holding two clients.
BothKeysCarryTestnet ==
    \A e \in Exchanges :
        /\ (LastLooked /\ last.ret = "hit" /\ last.ex = e) =>
             ArgsOf(e, last.key)[3] = last.args[3]
        /\ (LastLooked /\ last.ret = "miss" /\ last.ex = e) =>
             \A x \in DOMAIN cache[e] :
                 TestnetTwins(ArgsOf(e, x), last.args) => x # last.key
        /\ \A x, y \in DOMAIN cache[e] :
             x # y => cache[e][x].client # cache[e][y].client

\* The BingX cache holds two entries, with two clients, for calls that
\* differ in testnet only.
BingxTestnetTwinsCached ==
    \E x, y \in DOMAIN cache["bingx"] :
        /\ TestnetTwins(ArgsOf("bingx", x), ArgsOf("bingx", y))
        /\ cache["bingx"][x].client # cache["bingx"][y].client
        /\ last.ex = "bingx"
        /\ last.ret = "created"

\* C27: using the get_or_create wrappers, the client returned for (api_key,
\* api_secret, testnet, demo) was constructed with exactly those credentials
\* and mode flags: whenever a wrapper get_or_create returns a client (a hit,
\* or the client it has just built and inserted) and the entry under its key
\* was written by a get_or_create, the entry holds the returned client and
\* that client was built with the requested api_key and api_secret and with
\* the base URL of the requested flags (Bybit: testnet and demo; BingX:
\* demo).
C27_ClientMatchesRequest ==
    (/\ last.op = "get_or_create"
     /\ last.ret \in {"hit", "created"}
     /\ last.args # NoKey
     /\ last.key \in DOMAIN written[last.ex]
     /\ written[last.ex][last.key].by = "get_or_create")
      => /\ cache[last.ex][last.key].client = last.val
         /\ written[last.ex][last.key].cfg.api_key = last.args[1]
         /\ written[last.ex][last.key].cfg.api_secret = last.args[2]
         /\ written[last.ex][last.key].cfg.base_url =
              IF last.ex = "bybit"
                THEN BybitBaseUrl(last.args[3], last.args[4])
                ELSE BingxBaseUrl(last.args[4])

\* A Bybit get_or_create for ("k1", "s1", testnet = FALSE, demo = TRUE) hits
\* the demo client a get_or_create built, while the cache also holds the
\* client built for the same credentials without the demo flag.
C27_Witness ==
    /\ last.op = "get_or_create"
    /\ last.ret = "hit"
    /\ last.ex = "bybit"
    /\ last.args = <<"k1", "s1", FALSE, TRUE>>
    /\ written["bybit"][last.key].by = "get_or_create"
    /\ written["bybit"][last.key].cfg.base_url = "https://api-demo.bybit.com"
    /\ WrapperKey("k1", "s1", FALSE, FALSE) \in DOMAIN cache["bybit"]
    /\ written["bybit"][WrapperKey("k1", "s1", FALSE, FALSE)].cfg.base_url
         = "https://api.bybit.com"

\* C21: when a lock guarding cache state is poisoned no cache operation
\* panics: with the map lock poisoned get returns nothing, size and
\* cleanup_expired return 0, add and clear skip their mutation and
\* get_or_create returns the client it has just constructed; with the
\* lifetime lock poisoned configure skips its mutation.
C21_PoisonNeverPanics ==
    /\ last.ret # Panic
    /\ (last.op = "configure" /\ poisoned[last.ex].lifetime)
         => last.ret = "skipped"
    /\ (last.ex \in Exchanges /\ poisoned[last.ex].map)
         => /\ last.op = "get" => (last.ret = "miss" /\ last.val = 0)
            /\ last.op \in {"size", "cleanup_expired"} => last.val = 0
            /\ last.op \in {"add", "clear"} => last.ret = "skipped"
            /\ (last.op = "get_or_create" /\ last.ret # "miss")
                 => (last.ret = "built" /\ last.val # 0)

\* The threads whose guard thread t may be waiting for: the holders of the
\* map lock of the cache t works on, and the holder of the manager's lock.
C24_HoldersFor(t) ==
    (MapReaders(th[t].ex) \cup MapWriters(th[t].ex)
       \cup (IF mgrLock = 0 THEN {} ELSE {mgrLock})) \ {t}

\* C24: no cache or session lock is held while a client is being constructed
\* or while a task is suspended, and no call deadlocks.  While create runs
\* (nested calls of get, size and add on the same cache included) the thread
\* holds no guard of get_or_create itself, only the guard of the nested call
\* it is in; the write guard is held only inside add; close() does not hold
\* the manager's lock during its wait; every call in progress can take its
\* next step, or waits for a guard whose holder can take its next step; and
\* during a close()'s wait max_connections() can run as soon as a setup that
\* holds the lock has released it.
C24_NoLockAcrossCreateOrWait ==
    \A t \in Threads :
        /\ th[t].pc \in {"lk_create", "lk_nested_life", "lk_nested_add",
                         "lk_life", "lk_add"}
             => (th[t].rd = 0 /\ ~th[t].wr)
        /\ th[t].pc \in {"lk_nested_get", "lk_nested_size"}
             => (th[t].rd = 1 /\ ~th[t].wr)
        /\ th[t].wr => (/\ th[t].pc \in {"add_insert", "lk_nested_add_locked"}
                        /\ th[t].rd = 0)
        /\ th[t].pc = "close_sleep" => mgrLock # t
        /\ th[t].pc # "idle"
             => \/ ENABLED (SessStep(t) \/ LkStep(t))
                \/ \E u \in C24_HoldersFor(t) :
                      ENABLED (SessStep(u) \/ LkStep(u))
        /\ th[t].pc = "close_sleep"
             => \A u \in CacheThreads \ {t} :
                   th[u].pc = "idle"
                     => \/ ENABLED MaxConnections(u)
                        \/ mgrLock = u
                        \/ mgrLock # 0 /\ ENABLED SetupFlag(mgrLock)

\* Thread 1 is in close()'s wait while thread 2, inside setup, holds the
\* manager's lock; before that a get_or_create whose create function added
\* its own client to the cache has inserted that client again and returned.
C24_Witness ==
    /\ th[1].pc = "close_sleep"
    /\ th[2].pc = "setup_flag"
    /\ mgrLock = 2
    /\ last.op = "get_or_create"
    /\ last.ret = "created"
    /\ last.over = last.val
    /\ last.overBy = "add"

\* The cleanup task has been spawned.
C22_Running == th[TaskThread].op = "cleanup_task"

\* C22: while the task of create_cleanup_task(I) runs it repeats forever the
\* cycle "sleep I seconds, then cleanup_expired".  A pass runs only after the
\* task has slept its whole interval; a running task stays in its loop
\* (asleep or inside a pass) and keeps its interval; it runs a pass again
\* and again; and under fair scheduling every entry that has expired is
\* eventually gone from the map or replaced by a later add (every add
\* stores a new client).
C22_TaskLoopsAndEvicts ==
    /\ [](th[TaskThread].pc = "task_retain"
            => th[TaskThread].val >= th[TaskThread].arg)
    /\ [][C22_Running
            => /\ th'[TaskThread].op = "cleanup_task"
               /\ th'[TaskThread].pc \in {"task_sleep", "task_retain"}
               /\ th'[TaskThread].arg = th[TaskThread].arg]_vars
    /\ [](C22_Running => <>(th[TaskThread].pc = "task_retain"))
    /\ \A k \in RaceKeys, c \in 1..(MaxClients + 1) :
          (/\ C22_Running
           /\ k \in DOMAIN cache["bybit"]
           /\ cache["bybit"][k].client = c
           /\ cache["bybit"][k].exp <= now)
            ~> ~(k \in DOMAIN cache["bybit"] /\ cache["bybit"][k].client = c)

\* A pass of the task, begun after its interval of 1 second had elapsed, has
\* just removed the one entry of the map, which had expired, and the task
\* sleeps again.
C22_Witness ==
    /\ C22_Running
    /\ th[TaskThread].pc = "task_sleep"
    /\ th[TaskThread].arg = 1
    /\ last.op = "cleanup_expired"
    /\ last.val = 1
    /\ nextId = 1
    /\ DOMAIN cache["bybit"] = {}

=============================================================================
